---- MODULE Spec2Model ----
(***************************************************************************)
(* BufferedLineReader (src/buffered_line_reader.py): one reader instance,  *)
(* its background chunk_reader thread, the bounded chunk_queue, the        *)
(* synchronous compressed chunk source and the line splitter, as a state   *)
(* machine.  Bytes are integers 0..255, decoded text is a sequence of code *)
(* points, the encoding is the default 'utf-8'.                            *)
(***************************************************************************)
EXTENDS Integers, Sequences, FiniteSets, TLC

(* ------------------------------ bounds -------------------------------- *)
\* longest stream drawn over the whole byte alphabet
MaxLen == 3
\* longest stream drawn from the repeating text "a\nb\xc3\xa9\n"
MaxStream == 10
\* largest explicit chunk_size argument (0 stands for None)
MaxChunk == 2
\* iteration passes started on one reader
MaxPasses == 2

(* ------------------------- program constants -------------------------- *)
queue_size == 8
NL == 10
REPLACEMENT == 65533

COMPRESSION_NONE == "none"
COMPRESSION_GZIP == "gz"
COMPRESSION_BZIP2 == "bz2"
COMPRESSION_XZ == "xz"
COMPRESSION_LZMA == "lzma"

DEFAULT_CHUNK_SIZES ==
    [c \in {COMPRESSION_NONE, COMPRESSION_GZIP, COMPRESSION_BZIP2,
            COMPRESSION_XZ, COMPRESSION_LZMA} |->
        IF c = COMPRESSION_NONE THEN 128 * 1024 * 1024
        ELSE IF c = COMPRESSION_BZIP2 THEN 16 * 1024 * 1024
        ELSE 32 * 1024 * 1024]

(* ------------------------------ inputs -------------------------------- *)
\* '\n', 'a', 'b', and the two bytes of U+00E9 (a lead and a continuation byte)
Bytes == {NL, 97, 195, 169}
PatternBase == <<97, NL, 98, 195, 169, NL>>
Pattern(n) == [i \in 1..n |-> PatternBase[((i - 1) % Len(PatternBase)) + 1]]

RECURSIVE SeqsUpTo(_, _)
SeqsUpTo(S, n) ==
    IF n = 0 THEN {<<>>}
    ELSE LET shorter == SeqsUpTo(S, n - 1)
         IN shorter \cup {Append(s, x) : s \in {t \in shorter : Len(t) = n - 1}, x \in S}

Streams == SeqsUpTo(Bytes, MaxLen) \cup {Pattern(n) : n \in 0..MaxStream}
Suffixes == {"", ".gz", ".bz2", ".xz", ".lzma"}
ErrorPolicies == {"strict", "replace", "ignore"}
\* what is handed to __init__: a path string, a stream opened in binary mode, a text
\* stream whose mode attribute has no 'b' (open(p, 'r')), a text stream with no mode
\* attribute and no name (io.StringIO)
Sources == {"path", "binary", "text_mode", "text"}

(* --------------------------- pure functions --------------------------- *)
Min(a, b) == IF a < b THEN a ELSE b

\* bytes.decode('utf-8', errors) for one- and two-byte sequences: a lead byte
\* 0xC2..0xDF followed by a continuation byte 0x80..0xBF is one character; any
\* other byte >= 0x80 is malformed and is replaced by U+FFFD or dropped.
RECURSIVE decode_from(_, _, _)
decode_from(b, i, errors) ==
    IF i > Len(b) THEN <<>>
    ELSE IF b[i] < 128 THEN <<b[i]>> \o decode_from(b, i + 1, errors)
    ELSE IF b[i] \in 194..223 /\ i < Len(b) /\ b[i + 1] \in 128..191
         THEN <<(b[i] - 192) * 64 + (b[i + 1] - 128)>> \o decode_from(b, i + 2, errors)
    ELSE (IF errors = "replace" THEN <<REPLACEMENT>> ELSE <<>>)
            \o decode_from(b, i + 1, errors)

decode(chunk, errors) == decode_from(chunk, 1, errors)

RECURSIVE well_formed_from(_, _)
well_formed_from(b, i) ==
    IF i > Len(b) THEN TRUE
    ELSE IF b[i] < 128 THEN well_formed_from(b, i + 1)
    ELSE IF b[i] \in 194..223 /\ i < Len(b) /\ b[i + 1] \in 128..191
         THEN well_formed_from(b, i + 2)
    ELSE FALSE

\* chunk.decode raises UnicodeDecodeError
decode_raises(chunk, errors) == errors = "strict" /\ ~well_formed_from(chunk, 1)

\* str.split('\n')
RECURSIVE split(_)
split(t) ==
    IF \A i \in 1..Len(t) : t[i] # NL THEN <<t>>
    ELSE LET k == CHOOSE i \in 1..Len(t) : t[i] = NL /\ \A j \in 1..(i - 1) : t[j] # NL
         IN <<SubSeq(t, 1, k - 1)>> \o split(SubSeq(t, k + 1, Len(t)))

has_newline(t) == \E i \in 1..Len(t) : t[i] = NL

detect_compression_type(suffix) ==
    IF suffix = ".gz" THEN COMPRESSION_GZIP
    ELSE IF suffix = ".bz2" THEN COMPRESSION_BZIP2
    ELSE IF suffix = ".xz" THEN COMPRESSION_XZ
    ELSE IF suffix = ".lzma" THEN COMPRESSION_LZMA
    ELSE COMPRESSION_NONE

get_chunk_size(user, ctype) ==
    IF user # 0 THEN user ELSE DEFAULT_CHUNK_SIZES[ctype]

(* ------------------------------- state -------------------------------- *)
VARIABLES
    source,           \* what file_or_path is, see Sources
    data,             \* the (decompressed) bytes of the file
    suffix,           \* the extension of file_path
    user_chunk_size,  \* the chunk_size argument, 0 for None
    errors,           \* the decode-error policy
    compression_type, \* self._compression_type
    file_obj,         \* self.file_obj: "none" | "open" | "closed"
    stream,           \* the decompression stream f: "unopened" | "open" | "closed"
    closed,           \* self.closed
    mode,             \* self._mode
    rpos,             \* bytes read from the source so far
    ppc,              \* chunk_reader thread: "idle" | "read" | "put" | "done"
    inhand,           \* the item chunk_reader is about to put
    chunk_queue,      \* the Queue(maxsize=queue_size)
    readlog,          \* the chunks chunk_reader has read, in order
    io_failed,        \* a read by chunk_reader has raised
    pushed,           \* the items chunk_reader has put, in order
    cpc,              \* the generator: "new" | "pull" | "yield" | "last" | "done" | "error"
                      \* | "abandoned", or "rejected" when __init__ raised
    passes,           \* the passes started so far
    base_lines,       \* self._line_count when the current pass started
    base_bytes,       \* self._bytes_processed when the current pass started
    text_buffer,      \* _read_lines_from_chunks' text_buffer
    parts,            \* the rest of parts: lines still to yield, then the last fragment
    lines,            \* the lines yielded to the caller, in order
    received,         \* the chunks the line splitter was given, in order
    line_count,       \* self._line_count
    bytes_processed,  \* self._bytes_processed
    raised            \* the error that reached the caller: "none" | "io" | "decode" | "attr"

config == <<source, data, suffix, user_chunk_size, errors, compression_type>>
handles == <<file_obj, stream, closed>>
producer == <<ppc, inhand, chunk_queue, readlog, io_failed, pushed>>
splitter == <<text_buffer, parts, lines, line_count, bytes_processed>>
pass == <<passes, base_lines, base_bytes>>
vars == <<config, handles, mode, rpos, producer, cpc, pass, splitter, received, raised>>

chunk_size == get_chunk_size(user_chunk_size, compression_type)

Chunk(b) == [kind |-> "chunk", bytes |-> b]
Sentinel == [kind |-> "eof", bytes |-> <<>>]
ErrorItem == [kind |-> "err", bytes |-> <<>>]

\* __init__: a path string leaves file_obj None, a stream is kept in file_obj; a
\* stream with a mode attribute that has no 'b' is rejected with ValueError
Init ==
    /\ source \in Sources
    /\ data \in Streams
    /\ suffix \in (IF source \in {"path", "binary"} THEN Suffixes ELSE {""})
    /\ user_chunk_size \in 0..MaxChunk
    /\ errors \in ErrorPolicies
    /\ compression_type = detect_compression_type(suffix)
    /\ file_obj = (IF source = "path" THEN "none" ELSE "open")
    /\ stream = "unopened"
    /\ closed = FALSE
    /\ mode = "unset"
    /\ rpos = 0
    /\ ppc = "idle"
    /\ inhand = Sentinel
    /\ chunk_queue = <<>>
    /\ readlog = <<>>
    /\ io_failed = FALSE
    /\ pushed = <<>>
    /\ cpc = (IF source = "text_mode" THEN "rejected" ELSE "new")
    /\ passes = 0
    /\ base_lines = 0
    /\ base_bytes = 0
    /\ text_buffer = <<>>
    /\ parts = <<>>
    /\ lines = <<>>
    /\ received = <<>>
    /\ line_count = 0
    /\ bytes_processed = 0
    /\ raised = "none"

(* ------------------------------ helpers ------------------------------- *)
\* read(n) of a buffered binary file: n bytes, fewer only at the end of the file
read(n) == SubSeq(data, rpos + 1, Min(rpos + n, Len(data)))

\* mutant: the chunk_size argument is ignored and the format's default is read
stream_read_default(n) == read(DEFAULT_CHUNK_SIZES[compression_type])

\* _compressed_chunk_iterator: f.read(chunk_size)
stream_read(n) == read(n)

\* chunk_reader: self.file_obj.read(chunk_size)
file_read(n) == read(n)

\* mutant: a failed read is reported as the end of the stream
read_error_item_as_eof == Sentinel

\* chunk_reader's except clause: the item put for a failed read is the error
read_error_item == ErrorItem

\* mutant: put lets one more item in
put_blocks_late(q) == Len(q) > queue_size

\* mutant: the queue is unbounded, put never blocks
put_blocks_never(q) == FALSE

\* Queue.put blocks while the queue holds maxsize items
put_blocks(q) == Len(q) >= queue_size

\* Queue.put appends at the tail
queue_put(q, item) == Append(q, item)

\* mutant: get takes the newest item
queue_get_lifo(q) == [item |-> q[Len(q)], rest |-> SubSeq(q, 1, Len(q) - 1)]

\* Queue.get removes and returns the item at the head
queue_get(q) == [item |-> Head(q), rest |-> Tail(q)]

\* mutant: the line is yielded without being counted
track_line_never(n) == n

\* _track_line
track_line(n) == n + 1

\* mutant: chunk_reader returns at the end of the stream without putting None
producer_next_pc_silent_eof(item) == IF item.kind = "eof" THEN "done" ELSE "put"

\* chunk_reader: whatever the read gave (a chunk, None, the error) is put next
producer_next_pc(item) == "put"

\* close(): closes self.file_obj when it is set and open, then sets self.closed
close_file_obj(f) == IF f = "open" THEN "closed" ELSE f

\* mutant: the finally clause joins the chunk_reader thread with no timeout
Finally_joining(c, r) ==
    /\ ppc \in {"idle", "done"}
    /\ cpc' = c
    /\ raised' = r
    /\ closed' = TRUE
    /\ file_obj' = close_file_obj(file_obj)

\* __iter__'s finally clause (self.close()) as the pass ends in state c; nothing in
\* it waits for the chunk_reader thread
Finally(c, r) ==
    /\ cpc' = c
    /\ raised' = r
    /\ closed' = TRUE
    /\ file_obj' = close_file_obj(file_obj)

\* the pass goes on in state c
GoOn(c) ==
    /\ cpc' = c
    /\ UNCHANGED <<raised, closed, file_obj>>

\* lines 200-210: one non-empty chunk through the loop body, up to its first yield;
\* a chunk read from a text stream is a str, which has no decode (AttributeError)
Consume(chunk) ==
    /\ received' = Append(received, chunk)
    /\ bytes_processed' = bytes_processed + Len(chunk)
    /\ IF source = "text"
       THEN /\ Finally("error", "attr")
            /\ UNCHANGED <<text_buffer, parts, lines, line_count>>
       ELSE IF decode_raises(chunk, errors)
       THEN /\ Finally("error", "decode")
            /\ UNCHANGED <<text_buffer, parts, lines, line_count>>
       ELSE LET tb == text_buffer \o decode(chunk, errors)
            IN /\ text_buffer' = tb
               /\ IF has_newline(tb)
                  THEN /\ parts' = Tail(split(tb))
                       /\ lines' = Append(lines, Head(split(tb)))
                       /\ line_count' = track_line(line_count)
                       /\ GoOn("yield")
                  ELSE /\ UNCHANGED <<parts, lines, line_count>>
                       /\ GoOn("pull")

\* lines 211-213 and the finally clause: the chunk iterator is exhausted
Exhausted ==
    /\ UNCHANGED <<received, bytes_processed, text_buffer, parts>>
    /\ IF text_buffer # <<>>
       THEN /\ lines' = Append(lines, text_buffer)
            /\ line_count' = track_line(line_count)
            /\ GoOn("last")
       ELSE /\ UNCHANGED <<lines, line_count>>
            /\ Finally("done", "none")

\* an error raised by the chunk iterator passes through the splitter
Propagate ==
    /\ UNCHANGED <<received, splitter>>
    /\ Finally("error", "io")

(* ------------------------------ actions ------------------------------- *)
\* the first next() on a generator made by iter(reader): __iter__ up to the chunk
\* iterator's start, with a new queue, a new chunk_reader thread and an empty
\* text_buffer; a reader whose pass has completed can be iterated again
Start ==
    /\ cpc \in (IF passes < MaxPasses THEN {"new", "done"} ELSE {})
    /\ cpc' = "pull"
    /\ passes' = passes + 1
    /\ base_lines' = line_count
    /\ base_bytes' = bytes_processed
    /\ IF compression_type # COMPRESSION_NONE
       THEN /\ mode' = "compressed"
            /\ stream' = "open"
            /\ rpos' = 0
            /\ UNCHANGED <<file_obj, ppc>>
       ELSE /\ mode' = "buffered"
            /\ file_obj' = IF file_obj = "none" THEN "open" ELSE file_obj
            /\ ppc' = "read"
            /\ UNCHANGED <<stream, rpos>>
    /\ chunk_queue' = <<>>
    /\ readlog' = <<>>
    /\ io_failed' = FALSE
    /\ pushed' = <<>>
    /\ text_buffer' = <<>>
    /\ parts' = <<>>
    /\ lines' = <<>>
    /\ received' = <<>>
    /\ raised' = "none"
    /\ UNCHANGED <<config, closed, inhand, line_count, bytes_processed>>

\* _compressed_chunk_iterator: one f.read(chunk_size) in the caller's thread
CompressedRead ==
    /\ cpc = "pull"
    /\ mode = "compressed"
    /\ \E fails \in BOOLEAN :
         IF fails
         THEN /\ stream' = "closed"
              /\ Propagate
              /\ UNCHANGED rpos
         ELSE IF stream_read(chunk_size) = <<>>
         THEN /\ stream' = "closed"
              /\ Exhausted
              /\ UNCHANGED rpos
         ELSE /\ rpos' = rpos + Len(stream_read(chunk_size))
              /\ Consume(stream_read(chunk_size))
              /\ UNCHANGED stream
    /\ UNCHANGED <<config, mode, producer, pass>>

\* next() on a generator suspended at a yield
Resume ==
    /\ cpc \in {"yield", "last"}
    /\ IF cpc = "last"
       THEN /\ Finally("done", "none")
            /\ UNCHANGED splitter
       ELSE IF Len(parts) > 1
       THEN /\ lines' = Append(lines, Head(parts))
            /\ line_count' = track_line(line_count)
            /\ parts' = Tail(parts)
            /\ GoOn("yield")
            /\ UNCHANGED <<text_buffer, bytes_processed>>
       ELSE /\ text_buffer' = parts[1]
            /\ parts' = <<>>
            /\ GoOn("pull")
            /\ UNCHANGED <<lines, line_count, bytes_processed>>
    /\ UNCHANGED <<config, stream, mode, rpos, producer, pass, received>>

\* chunk_reader: one self.file_obj.read(chunk_size); a failed read (or a read of a
\* closed file, ValueError) is caught and becomes the item to put
ProducerRead ==
    /\ ppc = "read"
    /\ \E fails \in BOOLEAN :
         IF fails \/ file_obj # "open"
         THEN /\ inhand' = read_error_item
              /\ io_failed' = TRUE
              /\ UNCHANGED <<rpos, readlog>>
         ELSE IF file_read(chunk_size) = <<>>
         THEN /\ inhand' = Sentinel
              /\ UNCHANGED <<rpos, readlog, io_failed>>
         ELSE /\ inhand' = Chunk(file_read(chunk_size))
              /\ rpos' = rpos + Len(file_read(chunk_size))
              /\ readlog' = Append(readlog, file_read(chunk_size))
              /\ UNCHANGED io_failed
    /\ ppc' = producer_next_pc(inhand')
    /\ UNCHANGED <<config, handles, mode, chunk_queue, pushed, cpc, pass, splitter,
                   received, raised>>

\* mutant: the loop goes on after None was put (the break is missing)
after_put_pc_no_break(item) == IF item.kind = "err" THEN "done" ELSE "read"

\* chunk_reader: the loop reads again after a chunk, and ends after None (break) or
\* after the error was put in the except clause
after_put_pc(item) == IF item.kind = "chunk" THEN "read" ELSE "done"

\* chunk_reader: chunk_queue.put(item); the thread ends after None or an error
ProducerPut ==
    /\ ppc = "put"
    /\ ~put_blocks(chunk_queue)
    /\ chunk_queue' = queue_put(chunk_queue, inhand)
    /\ pushed' = Append(pushed, inhand)
    /\ ppc' = after_put_pc(inhand)
    /\ UNCHANGED <<config, handles, mode, rpos, inhand, readlog, io_failed, cpc, pass,
                   splitter, received, raised>>

\* _buffered_chunk_iterator: one chunk_queue.get() and what the consumer does with it
BufferedGet ==
    /\ cpc = "pull"
    /\ mode = "buffered"
    /\ chunk_queue # <<>>
    /\ chunk_queue' = queue_get(chunk_queue).rest
    /\ IF queue_get(chunk_queue).item.kind = "err" THEN Propagate
       ELSE IF queue_get(chunk_queue).item.kind = "eof" THEN Exhausted
       ELSE Consume(queue_get(chunk_queue).item.bytes)
    /\ UNCHANGED <<config, stream, mode, rpos, ppc, inhand, readlog, io_failed, pushed,
                   pass>>

\* the caller closes the generator while it is suspended at a yield (break, or
\* generator.close()): GeneratorExit runs the finally clause, and the chunk iterator,
\* no longer referenced, is finalized, which leaves its with block
Abandon ==
    /\ cpc \in {"yield", "last"}
    /\ Finally("abandoned", "none")
    /\ stream' = IF stream = "open" THEN "closed" ELSE stream
    /\ UNCHANGED <<config, mode, rpos, producer, pass, splitter, received>>

\* close() or __exit__ called by the caller, whenever the caller has control
Close ==
    /\ cpc \notin {"pull", "rejected"}
    /\ closed' = TRUE
    /\ file_obj' = close_file_obj(file_obj)
    /\ UNCHANGED <<config, stream, mode, rpos, producer, cpc, pass, splitter, received,
                   raised>>

\* the caller drops the exception: its traceback no longer holds the frames that
\* reference the suspended compressed chunk iterator, which is finalized
ReleaseTraceback ==
    /\ cpc = "error"
    /\ stream = "open"
    /\ stream' = "closed"
    /\ UNCHANGED <<config, file_obj, closed, mode, rpos, producer, cpc, pass, splitter,
                   received, raised>>

Next ==
    \/ Start
    \/ CompressedRead
    \/ ProducerRead
    \/ ProducerPut
    \/ BufferedGet
    \/ Resume
    \/ Abandon
    \/ Close
    \/ ReleaseTraceback

Spec == Init /\ [][Next]_vars

(* ------------------------ reference definitions ----------------------- *)
IsPrefix(s, t) == Len(s) <= Len(t) /\ s = SubSeq(t, 1, Len(s))

\* the chunks of d read cs bytes at a time
RECURSIVE ChunkSeq(_, _)
ChunkSeq(d, cs) ==
    IF d = <<>> THEN <<>>
    ELSE <<SubSeq(d, 1, Min(cs, Len(d)))>> \o ChunkSeq(SubSeq(d, Min(cs, Len(d)) + 1, Len(d)), cs)

\* _read_lines_from_chunks as a function: the lines yielded for the chunks cs[i..],
\* starting with text_buffer tb, up to the end of the chunks or a decode error
RECURSIVE read_lines_from_chunks(_, _, _, _)
read_lines_from_chunks(cs, i, tb, pol) ==
    IF i > Len(cs) THEN (IF tb # <<>> THEN <<tb>> ELSE <<>>)
    ELSE IF decode_raises(cs[i], pol) THEN <<>>
    ELSE LET t == tb \o decode(cs[i], pol)
             p == split(t)
         IN IF has_newline(t)
            THEN SubSeq(p, 1, Len(p) - 1) \o read_lines_from_chunks(cs, i + 1, p[Len(p)], pol)
            ELSE read_lines_from_chunks(cs, i + 1, t, pol)

\* the lines a pass over d with chunk size cs yields
LinesWith(d, cs, pol) == read_lines_from_chunks(ChunkSeq(d, cs), 1, <<>>, pol)

\* the lines of a text: its parts, without the empty part after a final terminator
LinesOfText(t) ==
    LET p == split(t)
    IN IF p[Len(p)] = <<>> THEN SubSeq(p, 1, Len(p) - 1) ELSE p

\* the lines joined with the terminator between them
RECURSIVE Join(_)
Join(ls) ==
    IF ls = <<>> THEN <<>>
    ELSE IF Len(ls) = 1 THEN ls[1]
    ELSE ls[1] \o <<NL>> \o Join(Tail(ls))

\* a chunk boundary of the pass falls between a lead byte and its continuation byte
BoundaryInsideCharacter ==
    \E k \in 1..(Len(data) - 1) :
        /\ k % chunk_size = 0
        /\ data[k] \in 194..223
        /\ data[k + 1] \in 128..191

PassEnded == cpc \in {"done", "error", "abandoned"}
PassCompleted == cpc = "done"

(* ------------------------------- claims ------------------------------- *)
\* C1: for every stream and every pair of chunk sizes, a pass with one chunk size
\* yields the same ordered sequence of lines as a pass with the other.
C1_ChunkSizeIndependent ==
    PassCompleted =>
        \A s2 \in 1..MaxChunk : LinesWith(data, s2, errors) = lines

\* C2: when a chunk boundary falls inside the bytes of one multi-byte character of a
\* well-formed stream, no decode error is raised and the lines of a completed pass
\* are the lines of the stream's text, the character intact.
C2_BoundarySafe ==
    (PassEnded /\ cpc # "abandoned" /\ well_formed_from(data, 1) /\ BoundaryInsideCharacter) =>
        /\ raised # "decode"
        /\ PassCompleted => lines = LinesOfText(decode(data, errors))

\* C3: the lines of a completed pass, joined with '\n' (with or without a terminator
\* after the last one), are the decoded text of the whole stream.
C3_RoundTrip ==
    PassCompleted =>
        \/ Join(lines) = decode(data, errors)
        \/ Join(lines) \o <<NL>> = decode(data, errors)

\* C4: a completed pass yields one line per terminator of the decoded text, and one
\* more exactly when the text after the last terminator is not empty.
C4_LineCount ==
    PassCompleted =>
        LET text == decode(data, errors)
            tail == split(text)[Len(split(text))]
        IN Len(lines) = Cardinality({i \in 1..Len(text) : text[i] = NL})
                        + (IF tail # <<>> THEN 1 ELSE 0)

\* the chunks chunk_reader has read that the consumer has not taken yet
Outstanding == Len(readlog) - Len(received)
OutstandingBytes == rpos - bytes_processed

\* the chunks on their way: those in the queue, then the one chunk_reader holds
InFlight ==
    [i \in 1..Len(SelectSeq(chunk_queue, LAMBDA it : it.kind = "chunk")) |->
        SelectSeq(chunk_queue, LAMBDA it : it.kind = "chunk")[i].bytes]
    \o (IF ppc = "put" /\ inhand.kind = "chunk" THEN <<inhand.bytes>> ELSE <<>>)

\* C5: the compressed path and the buffered-threaded path hand the splitter the same
\* chunks for the same content and chunk size, in every interleaving: in either mode
\* the chunks received are the stream cut into chunk_size pieces, in order, all of
\* them once the source is exhausted, and a completed pass has yielded the lines
\* that chunk sequence gives.
C5_SameChunksBothPaths ==
    /\ IsPrefix(received, ChunkSeq(data, chunk_size))
    /\ cpc \in {"last", "done"} => received = ChunkSeq(data, chunk_size)
    /\ PassCompleted => lines = LinesWith(data, chunk_size, errors)

\* a buffered-threaded pass over several chunks and lines has completed
C5_Witness ==
    /\ mode = "buffered"
    /\ PassCompleted
    /\ Len(received) >= 3
    /\ Len(lines) >= 2

\* C6: when a started pass has ended (exhaustion, abandonment or an error at the
\* caller), the closed flag is set and every file handle of the reader is closed.
C6_ReleasedWhenPassEnds ==
    PassEnded => (closed /\ file_obj # "open" /\ stream # "open")

\* C7: close() in any state leaves the reader closed with every file handle released,
\* and a second close() would change nothing.
C7_CloseReleases ==
    [][Close => /\ closed'
                /\ file_obj' # "open"
                /\ stream' # "open"
                /\ close_file_obj(file_obj') = file_obj']_vars

\* C8: a failed read in chunk_reader is never lost: the error is the item put, no
\* end-of-stream sentinel is ever queued, the pass never ends as exhausted, and when
\* the error is raised at the caller the consumer has received every chunk read
\* before the failure, in order.
C8_ReadErrorNotLost ==
    /\ (mode = "buffered" /\ io_failed) =>
        /\ \A i \in 1..Len(chunk_queue) : chunk_queue[i].kind # "eof"
        /\ cpc \notin {"last", "done"}
        /\ ppc = "put" => inhand.kind = "err"
        /\ ppc = "done" =>
              \/ raised = "io"
              \/ chunk_queue # <<>> /\ chunk_queue[Len(chunk_queue)].kind = "err"
        /\ raised = "io" => (cpc = "error" /\ received = readlog)
    /\ (mode = "buffered" /\ raised = "io") => io_failed

\* the producer's error has been raised at the caller after two or more chunks
C8_Witness ==
    /\ mode = "buffered"
    /\ io_failed
    /\ raised = "io"
    /\ Len(received) >= 2

\* C9 as stated: at most queue_size chunks (queue_size * chunk_size bytes) have been
\* read by chunk_reader and not yet taken by the consumer.
C9_AtMostQueueSize ==
    mode = "buffered" =>
        /\ Outstanding <= queue_size
        /\ OutstandingBytes <= queue_size * chunk_size

\* C9 amended: at most queue_size + 1 chunks are outstanding, the queue_size in the
\* queue and the one chunk_reader holds while its put blocks.
C9_AtMostQueueSizePlusOne ==
    mode = "buffered" =>
        /\ Outstanding <= queue_size + 1
        /\ OutstandingBytes <= (queue_size + 1) * chunk_size
        /\ Len(chunk_queue) <= queue_size

\* the queue is full and chunk_reader holds one more chunk
C9_Witness ==
    /\ mode = "buffered"
    /\ Outstanding = queue_size + 1
    /\ OutstandingBytes = (queue_size + 1) * chunk_size

\* C10: in every interleaving the chunks the consumer has received are a prefix of
\* the chunks chunk_reader has read, the rest being in flight in order, none
\* reordered, duplicated or skipped; the chunks read are the file's, in file order,
\* and so are the lines yielded.
C10_InOrderDelivery ==
    mode = "buffered" =>
        /\ IsPrefix(received, readlog)
        /\ received \o InFlight = readlog
        /\ IsPrefix(readlog, ChunkSeq(data, chunk_size))
        /\ IsPrefix(lines, LinesWith(data, chunk_size, errors))

\* the consumer is part of the way through, with chunks waiting in the queue
C10_Witness ==
    /\ mode = "buffered"
    /\ Len(received) >= 2
    /\ Len(chunk_queue) >= 2
    /\ Len(lines) >= 1

\* the teardown of an abandoned pass runs to its end in one go
TeardownCompletes == Abandon /\ cpc' = "abandoned" /\ closed' /\ file_obj' # "open"

\* C11: whenever the consumer stops pulling (the generator is suspended at a yield),
\* whatever the chunk_reader thread is doing, blocked on a full queue included, the
\* teardown can run at once and ends with the reader closed.
C11_TeardownNeverWaits ==
    cpc \in {"yield", "last"} => ENABLED TeardownCompletes

\* the pass was abandoned and is closed while chunk_reader is still blocked on the
\* full queue
C11_Witness ==
    /\ mode = "buffered"
    /\ cpc = "abandoned"
    /\ closed
    /\ ppc = "put"
    /\ put_blocks(chunk_queue)

\* C12: a stream that is not in binary mode is rejected by __init__: no reader exists
\* for it, no pass is started on it, nothing is read from it and no line is yielded.
C12_NonBinaryRejected ==
    source \in {"text_mode", "text"} =>
        /\ cpc = "rejected"
        /\ passes = 0
        /\ readlog = <<>>
        /\ lines = <<>>

RECURSIVE SumLen(_)
SumLen(chunks) == IF chunks = <<>> THEN 0 ELSE Len(Head(chunks)) + SumLen(Tail(chunks))

\* the counters agree with the work of the current pass
StatsExact ==
    /\ line_count = base_lines + Len(lines)
    /\ bytes_processed = base_bytes + SumLen(received)
    /\ PassCompleted => bytes_processed = base_bytes + Len(data)
    /\ (PassCompleted /\ data = <<>>) => (line_count = base_lines /\ bytes_processed = base_bytes)

\* C13: at every point of a pass the line counter has grown by the number of lines
\* yielded and the byte counter by the lengths of the chunks consumed, each chunk
\* once; neither counter ever decreases; a completed pass over N bytes has added N.
C13_StatsTrackWork ==
    /\ []StatsExact
    /\ [][line_count' >= line_count /\ bytes_processed' >= bytes_processed]_vars

\* a completed pass whose single chunk gave several lines
C13_Witness ==
    /\ PassCompleted
    /\ Len(received) = 1
    /\ Len(lines) >= 2
    /\ line_count = Len(lines)
    /\ bytes_processed = Len(data)

\* the chunks the splitter took to the end of the loop body: every chunk received,
\* but for the one whose decode raised
FullyProcessed ==
    IF raised \in {"decode", "attr"} THEN SubSeq(received, 1, Len(received) - 1) ELSE received

\* the lines of the stream when no error interrupts the pass
ErrorFreeLines == LinesWith(data, chunk_size, IF errors = "strict" THEN "replace" ELSE errors)

\* C14: when a pass is aborted by an error (a failed read, or a decode error under
\* the strict policy) the lines yielded are a prefix of the lines of the error-free
\* pass, no line is yielded afterwards, and the counters count only the lines yielded
\* and the chunks fully processed before the failure.
C14_PartialFailure ==
    /\ [](cpc = "error" =>
            /\ IsPrefix(lines, ErrorFreeLines)
            /\ line_count = base_lines + Len(lines)
            /\ bytes_processed = base_bytes + SumLen(FullyProcessed))
    /\ [][cpc = "error" => (lines' = lines /\ cpc' = "error")]_vars

QueueFull == mode = "buffered" /\ Len(chunk_queue) = queue_size

\* C15 as stated: the queue never holds more than queue_size items, and while it
\* holds queue_size the producer is blocked in its put (or has ended) and reads
\* nothing from the source.
C15_FullQueueStopsReads ==
    /\ [](mode = "buffered" => Len(chunk_queue) <= queue_size)
    /\ [](QueueFull => ppc \in {"put", "done"})
    /\ [][QueueFull => (readlog' = readlog /\ rpos' = rpos)]_vars

\* C15 amended: the queue never holds more than queue_size items; the put into a
\* full queue is not enabled, and while chunk_reader waits in it the producer makes
\* no step (no read, no put) until the consumer has removed an item; the only read
\* made while the queue is full is the one whose result chunk_reader then holds.
C15_FullQueueBlocksPut ==
    /\ [](mode = "buffered" => Len(chunk_queue) <= queue_size)
    /\ [](QueueFull => ~ENABLED ProducerPut)
    /\ []((QueueFull /\ ppc = "put") => ~ENABLED ProducerRead)
    /\ [][(QueueFull /\ ppc = "put") => UNCHANGED <<ppc, inhand, readlog, rpos, pushed>>]_vars
    /\ [][(QueueFull /\ readlog' # readlog) => (ppc' = "put" /\ Len(chunk_queue') = queue_size)]_vars

\* chunk_reader waits in its put with the chunk it read while the queue was full
C15_Witness ==
    /\ QueueFull
    /\ ppc = "put"
    /\ inhand.kind = "chunk"
    /\ Len(readlog) = Len(pushed) + 1
    /\ cpc = "pull"

\* C16: a reader made from an open stream object never reads through the compressed
\* path: when the detected format is not 'none', iteration fails with an error before
\* any chunk is produced or any line yielded, and the stream's name is never used to
\* open the file by path.
C16_StreamNeverCompressedPath ==
    (source = "binary" /\ compression_type # COMPRESSION_NONE) =>
        /\ stream = "unopened"
        /\ received = <<>>
        /\ lines = <<>>
        /\ passes > 0 => (cpc = "error" /\ raised # "none")

(* ---------------- the buffered-threaded pass under fair scheduling ------------- *)
\* a reader on the path of an uncompressed file
LiveInit == Init /\ source = "path" /\ compression_type = COMPRESSION_NONE

\* the first pass of the reader
StartOnce == Start /\ passes = 0

\* a read of the open source does not fail (a read of a handle closed by the finally
\* clause still raises ValueError in chunk_reader)
ProducerReadOk == ProducerRead /\ (file_obj = "open" => ~io_failed')

\* the caller keeps pulling: it never abandons the generator and never calls close()
LiveNext ==
    \/ StartOnce
    \/ ProducerReadOk
    \/ ProducerPut
    \/ BufferedGet
    \/ Resume

\* the steps of the chunk_reader thread, and those of the caller's thread
ProducerStep == ProducerReadOk \/ ProducerPut
ConsumerStep == StartOnce \/ BufferedGet \/ Resume

\* each of the two threads is scheduled again and again while it can run
LiveSpec ==
    /\ LiveInit
    /\ [][LiveNext]_vars
    /\ WF_vars(ProducerStep)
    /\ WF_vars(ConsumerStep)

\* the pass has ended by exhaustion: chunk_reader has put every chunk and then the
\* sentinel and has ended, the consumer has taken them all, every line is yielded
EndedBySentinel ==
    /\ cpc = "done"
    /\ closed
    /\ file_obj = "closed"
    /\ ppc = "done"
    /\ pushed = [i \in 1..Len(readlog) |-> Chunk(readlog[i])] \o <<Sentinel>>
    /\ chunk_queue = <<>>
    /\ received = ChunkSeq(data, chunk_size)
    /\ lines = LinesWith(data, chunk_size, errors)

\* the pass has ended by a decode error under the strict policy
EndedByDecodeError ==
    /\ cpc = "error"
    /\ raised = "decode"
    /\ errors = "strict"
    /\ closed
    /\ file_obj = "closed"

\* the consumer waits in get while chunk_reader can do nothing
BothBlocked ==
    /\ cpc = "pull"
    /\ ~ENABLED BufferedGet
    /\ ~ENABLED ProducerReadOk
    /\ ~ENABLED ProducerPut

IsTerminal(item) == item.kind \in {"eof", "err"}

\* C18: the items chunk_reader puts in a pass are non-empty chunks followed by at most
\* one terminal item, the sentinel or an error; chunk_reader has ended exactly when
\* it has put the terminal item, and it reads nothing and puts nothing afterwards.
C18_OneTerminalItemLast ==
    /\ [](mode = "buffered" =>
            /\ \A i \in 1..Len(pushed) :
                 /\ pushed[i].kind = "chunk" => pushed[i].bytes # <<>>
                 /\ i < Len(pushed) => pushed[i].kind = "chunk"
            /\ ppc = "done" <=> (pushed # <<>> /\ IsTerminal(pushed[Len(pushed)])))
    /\ [][(ppc = "done" /\ passes' = passes) =>
            UNCHANGED <<ppc, inhand, rpos, readlog, pushed>>]_vars

\* chunk_reader has ended after several chunks and the sentinel, ahead of the consumer
C18_Witness ==
    /\ ppc = "done"
    /\ Len(pushed) >= 3
    /\ pushed[Len(pushed)] = Sentinel
    /\ cpc = "pull"
    /\ chunk_queue # <<>>

\* C19: chunk_reader never reads from a file handle that close() has already closed:
\* in every interleaving of a buffered-threaded pass, early abandonment included,
\* each read by chunk_reader of the handle it has been reading in this pass happens
\* while the handle is open.
C19_NoReadAfterClose ==
    [][(ProducerRead /\ passes = 1 /\ readlog # <<>>) => file_obj = "open"]_vars

\* C20: a reader is single-pass: a second iteration started after a complete first
\* one yields no line and leaves the line and byte counters as they were at the end
\* of the first pass, on the buffered-threaded and on the compressed path.
C20_SinglePass ==
    passes >= 2 =>
        /\ lines = <<>>
        /\ line_count = base_lines
        /\ bytes_processed = base_bytes

====
